---- MODULE Spec2Model ----
(***************************************************************************)
(* State machine of the App component of src/src/App.tsx: a prompt form,   *)
(* one POST to the generate-image endpoint, and a client-side download of  *)
(* the displayed image.                                                    *)
(*                                                                         *)
(* One action is one browser event or one settled promise.  React renders  *)
(* between two events, so every handler reads the state left by the        *)
(* previous action; the state updates made by one handler run (or by one   *)
(* continuation after an await) are applied together.                      *)
(***************************************************************************)
EXTENDS Naturals, Sequences, FiniteSets

VARIABLES
    prompt,          \* useState('')                         line 10
    isGenerating,    \* useState(false)                      line 11
    generatedImage,  \* useState<GeneratedImage | null>(null) line 12
    error,           \* useState('')                         line 13
    genRequests,     \* POSTs of generateImage awaiting their response (line 25)
    downloads,       \* image fetches of downloadImage awaiting their blob (line 55)
    submitted,       \* history: body of the most recent POST (line 30)
    last             \* history: the event handled by the last step

vars == <<prompt, isGenerating, generatedImage, error, genRequests, downloads,
          submitted, last>>

display == <<prompt, isGenerating, generatedImage, error>>

-----------------------------------------------------------------------------
(* Bounds of the model *)

MaxLen == 2          \* longest prompt typed
MaxDownloads == 2    \* most image fetches in flight at once

-----------------------------------------------------------------------------
(* Values *)

\* GeneratedImage | null: the empty sequence is null, <<r>> holds the record r
Null == <<>>

GeneratedImage(url, text) == <<[url |-> url, prompt |-> text]>>

Chars == {" ", "a"}

Whitespace == {" "}

Prompts == UNION {[1..n -> Chars] : n \in 0..MaxLen}

Urls == {"u1", "u2"}

Keys == {"Enter", "a"}

ValidationMsg == "Please enter a prompt"
DefaultFailMsg == "Failed to generate image"
NetworkMsg == "Network error. Please make sure the server is running."
DownloadMsg == "Failed to download image"

\* error strings the backend sends in {success: false, error}
BackendErrors == {"Quota exceeded"}

\* a prompt the backend may return in place of the submitted one
RevisedPrompt == <<"a", "!">>

-----------------------------------------------------------------------------
(* String.prototype.trim: drops the whitespace at both ends *)

RECURSIVE TrimStart(_)
TrimStart(s) ==
    IF s # <<>> /\ Head(s) \in Whitespace THEN TrimStart(Tail(s)) ELSE s

RECURSIVE TrimEnd(_)
TrimEnd(s) ==
    IF s # <<>> /\ s[Len(s)] \in Whitespace
    THEN TrimEnd(SubSeq(s, 1, Len(s) - 1))
    ELSE s

Trim(s) == TrimEnd(TrimStart(s))

\* a || b on strings: the empty (or absent) string is falsy
OrElse(a, b) == IF a = "" THEN b ELSE a

RemoveAt(s, i) == SubSeq(s, 1, i - 1) \o SubSeq(s, i + 1, Len(s))

-----------------------------------------------------------------------------
(* What the fetch of a generation request can settle to.  throws covers a  *)
(* rejected fetch and a body response.json() cannot parse.  An absent      *)
(* error field and an empty one are both the falsy "".                     *)

NoResponse ==
    [throws |-> FALSE, success |-> FALSE, imageUrl |-> "", prompt |-> <<>>, error |-> ""]

Thrown == [NoResponse EXCEPT !.throws = TRUE]

SuccessResponses(req) ==
    {[NoResponse EXCEPT !.success = TRUE, !.imageUrl = u, !.prompt = p] :
        u \in Urls, p \in {req.prompt, RevisedPrompt}}

FailureResponses ==
    {[NoResponse EXCEPT !.error = e] : e \in BackendErrors \cup {""}}

\* the event a step handled: the handler, how generateImage was invoked, and
\* for a settled generation the body of its request and what it settled to
Event(op, via, req, resp) == [op |-> op, via |-> via, req |-> req, resp |-> resp]

-----------------------------------------------------------------------------
(* What is rendered *)

ErrorShown == error # ""                                   \* line 140

ResultShown == generatedImage # Null                       \* line 149

LoadingShown == isGenerating /\ generatedImage = Null      \* line 180

TextareaDisabled == isGenerating                           \* line 118

\* mutant: the button is not disabled while a generation is running
GenerateDisabled_PromptOnly == Trim(prompt) = <<>>

GenerateDisabled == isGenerating \/ Trim(prompt) = <<>>    \* line 124

-----------------------------------------------------------------------------
Init ==
    /\ prompt = <<>>
    /\ isGenerating = FALSE
    /\ generatedImage = Null
    /\ error = ""
    /\ genRequests = <<>>
    /\ downloads = <<>>
    /\ submitted = <<>>
    /\ last = Event("init", "-", <<>>, NoResponse)

\* onChange of the textarea (line 113)
SetPrompt ==
    /\ ~TextareaDisabled
    /\ \E p \in Prompts :
        /\ p # prompt
        /\ prompt' = p
    /\ last' = Event("setPrompt", "-", <<>>, NoResponse)
    /\ UNCHANGED <<isGenerating, generatedImage, error, genRequests, downloads, submitted>>

\* mutant: no early return on an empty prompt
generateImage_NoValidation(via) ==
    /\ last' = Event("generateImage", via, <<>>, NoResponse)
    /\ isGenerating' = TRUE
    /\ error' = ""
    /\ genRequests' = Append(genRequests, [prompt |-> Trim(prompt)])
    /\ submitted' = Trim(prompt)
    /\ UNCHANGED <<prompt, generatedImage, downloads>>

\* mutant: setError('') is left out
generateImage_KeepsError(via) ==
    /\ last' = Event("generateImage", via, <<>>, NoResponse)
    /\ IF Trim(prompt) = <<>>
       THEN /\ error' = ValidationMsg
            /\ UNCHANGED <<prompt, isGenerating, generatedImage, genRequests,
                           downloads, submitted>>
       ELSE /\ isGenerating' = TRUE
            /\ genRequests' = Append(genRequests, [prompt |-> Trim(prompt)])
            /\ submitted' = Trim(prompt)
            /\ UNCHANGED <<prompt, generatedImage, error, downloads>>

\* mutant: setIsGenerating(true) is left out
generateImage_NoFlag(via) ==
    /\ last' = Event("generateImage", via, <<>>, NoResponse)
    /\ IF Trim(prompt) = <<>>
       THEN /\ error' = ValidationMsg
            /\ UNCHANGED <<prompt, isGenerating, generatedImage, genRequests,
                           downloads, submitted>>
       ELSE /\ error' = ""
            /\ genRequests' = Append(genRequests, [prompt |-> Trim(prompt)])
            /\ submitted' = Trim(prompt)
            /\ UNCHANGED <<prompt, isGenerating, generatedImage, downloads>>

\* generateImage up to its first await (lines 15-31)
generateImage(via) ==
    /\ last' = Event("generateImage", via, <<>>, NoResponse)
    /\ IF Trim(prompt) = <<>>
       THEN /\ error' = ValidationMsg
            /\ UNCHANGED <<prompt, isGenerating, generatedImage, genRequests,
                           downloads, submitted>>
       ELSE /\ isGenerating' = TRUE
            /\ error' = ""
            /\ genRequests' = Append(genRequests, [prompt |-> Trim(prompt)])
            /\ submitted' = Trim(prompt)
            /\ UNCHANGED <<prompt, generatedImage, downloads>>

\* onClick of the Generate button (lines 122-124)
ClickGenerate ==
    /\ ~GenerateDisabled
    /\ generateImage("click")

\* handleKeyPress (lines 73-77)
handleKeyPress(key) ==
    IF key = "Enter" /\ ~isGenerating
    THEN generateImage("Enter")
    ELSE /\ last' = Event("keyPress", "-", <<>>, NoResponse)
         /\ UNCHANGED <<prompt, isGenerating, generatedImage, error, genRequests,
                        downloads, submitted>>

\* onKeyPress of the textarea (line 114); a disabled textarea gets no keys
KeyPress ==
    /\ ~TextareaDisabled
    /\ \E key \in Keys : handleKeyPress(key)

\* mutant: setError(data.error) without the default text
processResponse_NoDefault(i, resp) ==
    /\ IF resp.throws
       THEN /\ error' = NetworkMsg
            /\ UNCHANGED generatedImage
       ELSE IF resp.success
            THEN /\ generatedImage' = GeneratedImage(resp.imageUrl, resp.prompt)
                 /\ UNCHANGED error
            ELSE /\ error' = resp.error
                 /\ UNCHANGED generatedImage
    /\ isGenerating' = FALSE
    /\ genRequests' = RemoveAt(genRequests, i)
    /\ last' = Event("generateSettled", "-", genRequests[i].prompt, resp)
    /\ UNCHANGED <<prompt, downloads, submitted>>

\* mutant: setIsGenerating(false) at the end of the try block, not in finally
processResponse_NoFinally(i, resp) ==
    /\ IF resp.throws
       THEN /\ error' = NetworkMsg
            /\ UNCHANGED <<generatedImage, isGenerating>>
       ELSE /\ isGenerating' = FALSE
            /\ IF resp.success
               THEN /\ generatedImage' = GeneratedImage(resp.imageUrl, resp.prompt)
                    /\ UNCHANGED error
               ELSE /\ error' = OrElse(resp.error, DefaultFailMsg)
                    /\ UNCHANGED generatedImage
    /\ genRequests' = RemoveAt(genRequests, i)
    /\ last' = Event("generateSettled", "-", genRequests[i].prompt, resp)
    /\ UNCHANGED <<prompt, downloads, submitted>>

\* generateImage after its awaits (lines 33-48), for request i settling to resp
processResponse(i, resp) ==
    /\ IF resp.throws
       THEN /\ error' = NetworkMsg
            /\ UNCHANGED generatedImage
       ELSE IF resp.success
            THEN /\ generatedImage' = GeneratedImage(resp.imageUrl, resp.prompt)
                 /\ UNCHANGED error
            ELSE /\ error' = OrElse(resp.error, DefaultFailMsg)
                 /\ UNCHANGED generatedImage
    /\ isGenerating' = FALSE
    /\ genRequests' = RemoveAt(genRequests, i)
    /\ last' = Event("generateSettled", "-", genRequests[i].prompt, resp)
    /\ UNCHANGED <<prompt, downloads, submitted>>

GenerateSucceeds ==
    \E i \in DOMAIN genRequests :
        \E resp \in SuccessResponses(genRequests[i]) : processResponse(i, resp)

GenerateRejected ==
    \E i \in DOMAIN genRequests :
        \E resp \in FailureResponses : processResponse(i, resp)

GenerateThrows ==
    \E i \in DOMAIN genRequests : processResponse(i, Thrown)

GenerateSettles == GenerateSucceeds \/ GenerateRejected \/ GenerateThrows

\* downloadImage up to its first await (lines 51-55)
downloadImage ==
    /\ generatedImage # Null
    /\ downloads' = Append(downloads, generatedImage[1].url)
    /\ last' = Event("downloadImage", "-", <<>>, NoResponse)
    /\ UNCHANGED <<prompt, isGenerating, generatedImage, error, genRequests, submitted>>

\* onClick of the Download button, rendered with the result (lines 149, 168)
ClickDownload ==
    /\ ResultShown
    /\ Len(downloads) < MaxDownloads
    /\ downloadImage

\* mutant: a finished download clears the error
downloadSaved_ClearsError(i) ==
    /\ downloads' = RemoveAt(downloads, i)
    /\ error' = ""
    /\ last' = Event("downloadSaved", "-", <<>>, NoResponse)
    /\ UNCHANGED <<prompt, isGenerating, generatedImage, genRequests, submitted>>

\* downloadImage after its awaits, nothing thrown (lines 56-66): the blob is
\* handed to the browser as generated-image.png, no state of the page changes
downloadSaved(i) ==
    /\ downloads' = RemoveAt(downloads, i)
    /\ last' = Event("downloadSaved", "-", <<>>, NoResponse)
    /\ UNCHANGED <<prompt, isGenerating, generatedImage, error, genRequests,
                   submitted>>

\* mutant: the caught exception's text is shown
downloadFailed_RawError(i) ==
    /\ error' = "TypeError: Failed to fetch"
    /\ downloads' = RemoveAt(downloads, i)
    /\ last' = Event("downloadFailed", "-", <<>>, NoResponse)
    /\ UNCHANGED <<prompt, isGenerating, generatedImage, genRequests,
                   submitted>>

\* downloadImage's catch (lines 67-70)
downloadFailed(i) ==
    /\ error' = DownloadMsg
    /\ downloads' = RemoveAt(downloads, i)
    /\ last' = Event("downloadFailed", "-", <<>>, NoResponse)
    /\ UNCHANGED <<prompt, isGenerating, generatedImage, genRequests,
                   submitted>>

DownloadSucceeds == \E i \in DOMAIN downloads : downloadSaved(i)

DownloadFails == \E i \in DOMAIN downloads : downloadFailed(i)

Next ==
    \/ SetPrompt
    \/ ClickGenerate
    \/ KeyPress
    \/ GenerateSucceeds
    \/ GenerateRejected
    \/ GenerateThrows
    \/ ClickDownload
    \/ DownloadSucceeds
    \/ DownloadFails

Spec == Init /\ [][Next]_vars

\* every fetch of generateImage settles
FairSpec == Spec /\ WF_vars(GenerateSettles)

-----------------------------------------------------------------------------
(* Shorthands for the claims *)

\* the step just taken ran generateImage, resp. settled a generation request
GenerateInvoked == last.op = "generateImage"

Settled == last.op = "generateSettled"

SettledSuccess == Settled /\ ~last.resp.throws /\ last.resp.success

SettledFailure == Settled /\ (last.resp.throws \/ ~last.resp.success)

DownloadStep == last.op \in {"downloadImage", "downloadSaved", "downloadFailed"}

InFlight == Len(genRequests) + Len(downloads)

-----------------------------------------------------------------------------
\* C1: every invocation of generateImage (click or Enter) on a prompt that is
\* empty or all whitespace issues no request and leaves the validation message
\* 'Please enter a prompt' as the error.
C1_EmptyPromptRejected ==
    [][(GenerateInvoked' /\ Trim(prompt) = <<>>)
          => /\ genRequests' = genRequests
             /\ downloads' = downloads
             /\ error' = ValidationMsg]_vars

\* generateImage ran on a whitespace-only prompt and nothing is in flight
C1_Witness ==
    /\ GenerateInvoked
    /\ last.via = "Enter"
    /\ prompt # <<>>
    /\ Trim(prompt) = <<>>
    /\ error = ValidationMsg
    /\ genRequests = <<>>

\* C2: right after a successful response is processed, generatedImage is the
\* record {url: imageUrl, prompt: prompt} of that response and the error text
\* is empty, whatever else the user did while the request was outstanding.
C2_SuccessShowsResultNoError ==
    SettledSuccess
        => /\ generatedImage = GeneratedImage(last.resp.imageUrl, last.resp.prompt)
           /\ error = ""

\* C3: right after a failed generation is processed the error text is not
\* empty: the response's error field when that is not empty, 'Failed to
\* generate image' when success is false with no error field, and the
\* network-error text when the request throws.
C3_FailureShowsError ==
    SettledFailure
        => /\ error # ""
           /\ error = IF last.resp.throws THEN NetworkMsg
                      ELSE IF last.resp.error # "" THEN last.resp.error
                      ELSE DefaultFailMsg

\* a backend refusal carrying its own error text was processed
C3_Witness ==
    /\ SettledFailure
    /\ ~last.resp.throws
    /\ last.resp.error \in BackendErrors
    /\ error = last.resp.error

\* C4: right after a failed generation is processed no earlier result is
\* rendered: generatedImage is cleared.
C4_FailureClearsResult == SettledFailure => generatedImage = Null

\* C5 as claimed: no step of downloadImage changes prompt, isGenerating,
\* generatedImage or error.
C5_DownloadKeepsDisplay == [][DownloadStep' => UNCHANGED display]_vars

\* C5 amended: no step of downloadImage changes prompt, isGenerating or
\* generatedImage; the error is left as it was unless the fetch or blob step
\* throws, and then it becomes 'Failed to download image'.
C5_DownloadKeepsDisplayButError ==
    [][DownloadStep'
          => /\ UNCHANGED <<prompt, isGenerating, generatedImage>>
             /\ error' = IF last'.op = "downloadFailed" THEN DownloadMsg ELSE error]_vars

\* a download failed while a result was shown
C5_Witness ==
    /\ last.op = "downloadFailed"
    /\ error = DownloadMsg
    /\ ResultShown

\* C6 as claimed: error box, loading panel and result panel are pairwise
\* mutually exclusive.
C6_PanelsExclusive ==
    /\ ~(ErrorShown /\ LoadingShown)
    /\ ~(ErrorShown /\ ResultShown)
    /\ ~(LoadingShown /\ ResultShown)

\* C6 amended: the loading panel is never rendered together with the error
\* box nor with the result panel (error box and result panel can be).
C6_LoadingExclusive ==
    /\ ~(LoadingShown /\ ErrorShown)
    /\ ~(LoadingShown /\ ResultShown)

\* the loading panel is rendered for a request just issued
C6_Witness ==
    /\ LoadingShown
    /\ GenerateInvoked
    /\ genRequests # <<>>

\* C7 as claimed: at most one request, POST or image fetch, is outstanding.
C7_OneRequestInFlight == InFlight <= 1

\* C7 amended: at most one generate-image POST is outstanding; image fetches
\* of downloadImage are not limited by it.
C7_OneGenerationInFlight == Len(genRequests) <= 1

\* a POST is outstanding next to an image fetch
C7_Witness ==
    /\ Len(genRequests) = 1
    /\ downloads # <<>>

\* C8 as claimed: the error text is empty, the validation message or a
\* generation failure message.
C8_TwoErrorKinds ==
    error \in {"", ValidationMsg, NetworkMsg, DefaultFailMsg} \cup BackendErrors

\* C8 amended: the error text is empty, the validation message, a generation
\* failure message, or 'Failed to download image'.
C8_ThreeErrorKinds ==
    error \in {"", ValidationMsg, NetworkMsg, DefaultFailMsg, DownloadMsg}
                \cup BackendErrors

\* the download failure text is the error shown
C8_Witness ==
    /\ error = DownloadMsg
    /\ last.op = "downloadFailed"

\* C9: once a generation is started, isGenerating becomes false again,
\* provided its fetch settles.
C9_LoadingEnds == isGenerating ~> ~isGenerating

\* a request that threw was processed and the form is usable again
C9_Witness ==
    /\ Settled
    /\ last.resp.throws
    /\ ~isGenerating
    /\ ~TextareaDisabled

\* C10: isGenerating holds exactly while a generate-image request is
\* outstanding, a request is only issued while it is false, at most one is in
\* flight, and a processed response answers the most recently submitted prompt.
C10_FlagTracksRequest ==
    /\ [](/\ isGenerating <=> genRequests # <<>>
          /\ Len(genRequests) <= 1
          /\ \A i \in DOMAIN genRequests : genRequests[i].prompt = submitted
          /\ Settled => last.req = submitted)
    /\ [][genRequests' # genRequests /\ GenerateInvoked' => ~isGenerating]_vars

\* the response to the latest submission was processed while the result on
\* display still stems from an earlier submission with another prompt
C10_Witness ==
    /\ Settled
    /\ last.req = submitted
    /\ ~isGenerating
    /\ ResultShown
    /\ generatedImage[1].prompt # submitted
    /\ generatedImage[1].prompt # RevisedPrompt

====
